---- MODULE Spec2Model ----
(***************************************************************************)
(* The in-memory record store (MemStorage) and the REST handlers that      *)
(* mutate it: job create / delete / process, platform add / delete,       *)
(* withdrawals, the auto-process setting, stats.                           *)
(*                                                                         *)
(* Money is held in units of 0.0001 (the four decimals of the decimal      *)
(* columns), so a JS number is an integer here and binary rounding of      *)
(* floating point is outside the model.  A decimal string stays a string   *)
(* and is converted by parseFloat / toString through DecimalTexts.         *)
(* Date values are abstracted to the token Now; null and undefined to      *)
(* NULL.  A Map keyed by randomUUID() keeps insertion order: the maps of   *)
(* transactions and activity logs are sequences (the key is the position), *)
(* the map of jobs is a function from the issued ids.                      *)
(*                                                                         *)
(* Scheduling: Node runs one handler at a time and a handler is suspended  *)
(* only where it awaits real I/O.  The storage methods are async functions *)
(* that finish synchronously, so every handler is one step, except the     *)
(* process handler, which is cut at the external completion call.          *)
(***************************************************************************)
EXTENDS Integers, Sequences, FiniteSets, TLC

VARIABLES
    storage,        \* the MemStorage singleton
    openaiModule,   \* TRUE iff the completion module was loaded at startup
    uuid,           \* number of ids randomUUID() has issued for platforms, jobs, settings
    reqs            \* the process requests that are between their two steps

vars == <<storage, openaiModule, uuid, reqs>>

----------------------------------------------------------------------------
(* Bounds of the model *)

\* demo jobs seeded at startup; the source seeds 8, whose status and type
\* repeat with period 4, so 4 cover every seeded combination
DemoJobs == 4
\* activity logs appended after startup: every request that changes the
\* store appends one, so this bounds the number of such requests
MaxNewLogs == 2
\* process requests suspended on their external call at the same time
MaxInFlight == 2
\* jobs created after startup
MaxNewJobs == 1
\* platforms created after startup
MaxNewPlatforms == 1

(* Program constants *)
DemoTransactions == 15
DemoCompletedTx == 12
DemoLogs == 20
DemoBalance == 254523
DemoTotalEarnings == 1568912
DemoRetryCount == 2
DemoJobsCompleted == 1245

NULL == "<null>"
Now == "<date>"

----------------------------------------------------------------------------
(* Decimal strings and JS numbers *)

\* the decimal texts the model uses, with their value in units of 0.0001
DecimalTexts ==
    { <<"0.0100", 100>>, <<"0.0599", 599>>, <<"0.0200", 200>>,
      <<"-0.0100", -100>>, <<"0.0000", 0>>,
      <<"5.00", 50000>>, <<"14.99", 149900>>,
      <<"5", 50000>>, <<"25.4523", 254523>>, <<"30", 300000>>,
      <<"0.01", 100>> }

\* parseFloat of a decimal text
parseFloat(s) == (CHOOSE p \in DecimalTexts : p[1] = s)[2]

\* Number.prototype.toString: the shortest text of the number
toString(n) ==
    CASE n = 50000 -> "5"
      [] n = 254523 -> "25.4523"
      [] n = 300000 -> "30"
      [] n = 0 -> "0"
      [] n = 100 -> "0.01"

\* Object.assign(obj, updates) and the object spread {...obj, ...updates}
Assign(obj, updates) ==
    [k \in DOMAIN obj \cup DOMAIN updates |->
        IF k \in DOMAIN updates THEN updates[k] ELSE obj[k]]

Truthy(v) == v # NULL /\ v # ""

RECURSIVE SumSeq(_)
SumSeq(s) == IF s = <<>> THEN 0 ELSE Head(s) + SumSeq(Tail(s))

----------------------------------------------------------------------------
(* MemStorage *)

\* Math.random() in initDemoData: one of two draws, the low end and the
\* high end of each range, varied along the loop index
DemoSeeds == {0, 1}
DemoReward(seed, i) == IF (seed + i) % 2 = 0 THEN "0.0100" ELSE "0.0599"
DemoWithdrawal(seed, i) == IF (seed + (i \div 4)) % 2 = 0 THEN "5.00" ELSE "14.99"

PlatformId == 1
DemoJobId(i) == PlatformId + 1 + i
DemoJobKeys == [k \in 1..DemoJobs |-> DemoJobId(k - 1)]

JobTypes == <<"captcha", "typing">>
Statuses == <<"queued", "processing", "completed", "failed">>
SubTypes == [captcha |-> <<"image_captcha", "text_captcha">>,
             typing |-> <<"data_entry", "transcription">>]
PaymentMethods == <<"paypal", "bitcoin", "ethereum">>
DemoActions == << [action |-> "CAPTCHA solved successfully", status |-> "success"],
                  [action |-> "Typing job completed", status |-> "success"],
                  [action |-> "Job failed - timeout", status |-> "error"],
                  [action |-> "New job received", status |-> "info"],
                  [action |-> "Platform connected", status |-> "info"] >>

\* a payload without any of the keys the router reads; a null payload reads
\* the same through `jobData?.key`
NoData == [imageUrl |-> NULL, text |-> NULL, format |-> NULL]

DemoJob(seed, i) ==
    LET type == JobTypes[(i % 2) + 1]
        st == Statuses[(i % 4) + 1]
    IN  [ id |-> DemoJobId(i),
          platformId |-> PlatformId,
          externalId |-> i,
          type |-> type,
          subType |-> SubTypes[type][(i % 2) + 1],
          status |-> st,
          reward |-> DemoReward(seed, i),
          data |-> IF type = "captcha"
                   THEN [NoData EXCEPT !.imageUrl = "https://via.placeholder.com/200x80?text=CAPTCHA"]
                   ELSE [NoData EXCEPT !.text = "Sample text for typing job"],
          result |-> IF st = "completed" THEN "xyz123" ELSE NULL,
          errorMessage |-> IF st = "failed" THEN "Timeout exceeded" ELSE NULL,
          retryCount |-> IF st = "failed" THEN DemoRetryCount ELSE 0,
          createdAt |-> Now,
          completedAt |-> IF st = "completed" THEN Now ELSE NULL ]

DemoTx(seed, i) ==
    LET isEarning == i % 4 # 0
    IN  [ jobId |-> IF isEarning THEN DemoJobKeys[(i % DemoJobs) + 1] ELSE 0,
          type |-> IF isEarning THEN "earning" ELSE "withdrawal",
          amount |-> IF isEarning THEN DemoReward(seed, i) ELSE DemoWithdrawal(seed, i),
          status |-> IF i < DemoCompletedTx THEN "completed" ELSE "pending",
          paymentMethod |-> IF isEarning THEN NULL ELSE PaymentMethods[(i % 3) + 1],
          paymentAddress |-> IF isEarning THEN NULL ELSE "user@example.com",
          transactionHash |-> NULL,
          createdAt |-> Now,
          completedAt |-> IF i < DemoCompletedTx THEN Now ELSE NULL ]

DemoPlatform ==
    [ id |-> PlatformId,
      name |-> "2Captcha",
      apiKey |-> "demo-key-hidden",
      apiUrl |-> "https://api.2captcha.com",
      status |-> "connected",
      jobsCompleted |-> DemoJobsCompleted,
      successRate |-> "94.5" ]

DemoLog(i) ==
    LET act == DemoActions[(i % Len(DemoActions)) + 1]
    IN  [ jobId |-> DemoJobKeys[(i % DemoJobs) + 1],
          action |-> act.action,
          details |-> "Job ID: ...",
          status |-> act.status,
          createdAt |-> Now ]

\* the constructor followed by initDemoData
initDemoData(seed) ==
    [ users |-> {},
      platforms |-> [id \in {PlatformId} |-> DemoPlatform],
      settings |-> [key \in {} |-> NULL],
      activityLogs |-> [k \in 1..DemoLogs |-> DemoLog(k - 1)],
      transactions |-> [k \in 1..DemoTransactions |-> DemoTx(seed, k - 1)],
      balance |-> DemoBalance,
      totalEarnings |-> DemoTotalEarnings,
      jobs |-> [id \in {DemoJobId(i) : i \in 0..(DemoJobs - 1)} |->
                    DemoJob(seed, id - PlatformId - 1)] ]

\* variant of updateUserBalance: the earnings counter moves, the balance does not
updateUserBalanceEarningsOnly(s, id, amount) ==
    IF amount > 0 THEN [s EXCEPT !.totalEarnings = @ + amount] ELSE s

\* variant of updateUserBalance: the earnings counter follows every amount,
\* whatever its sign
updateUserBalanceNet(s, id, amount) ==
    [s EXCEPT !.balance = @ + amount, !.totalEarnings = @ + amount]

\* no route creates a user, so the lookup of "default" finds none and only
\* the store's own counters move
updateUserBalance(s, id, amount) ==
    LET s1 == [s EXCEPT !.balance = @ + amount]
    IN  IF amount > 0 THEN [s1 EXCEPT !.totalEarnings = @ + amount] ELSE s1

\* Map.get: a set with the object, empty for undefined
getPlatform(s, id) == {s.platforms[k] : k \in DOMAIN s.platforms \cap {id}}

\* variant of createPlatform: the status of the input is kept
createPlatformInputStatus(s, id, insertPlatform) ==
    LET platform == Assign([ id |-> id, status |-> "connected",
                             jobsCompleted |-> 0, successRate |-> "0" ],
                           insertPlatform)
    IN  [s EXCEPT !.platforms = [k \in DOMAIN s.platforms \cup {id} |->
                                     IF k = id THEN platform ELSE s.platforms[k]]]

createPlatform(s, id, insertPlatform) ==
    LET platform == Assign(insertPlatform,
                           [ id |-> id, status |-> "connected",
                             jobsCompleted |-> 0, successRate |-> "0" ])
    IN  [s EXCEPT !.platforms = [k \in DOMAIN s.platforms \cup {id} |->
                                     IF k = id THEN platform ELSE s.platforms[k]]]

deletePlatform(s, id) ==
    [s EXCEPT !.platforms = [k \in DOMAIN s.platforms \ {id} |-> s.platforms[k]]]

getJob(s, id) == {s.jobs[k] : k \in DOMAIN s.jobs \cap {id}}

\* variant of createJob: the input is spread after the defaults
createJobInputLast(s, id, insertJob) ==
    LET job == Assign([ id |-> id, status |-> "queued", result |-> NULL,
                        errorMessage |-> NULL, retryCount |-> 0,
                        createdAt |-> Now, completedAt |-> NULL ],
                      insertJob)
    IN  [s EXCEPT !.jobs = [k \in DOMAIN s.jobs \cup {id} |->
                                IF k = id THEN job ELSE s.jobs[k]]]

createJob(s, id, insertJob) ==
    LET job == Assign(insertJob,
                      [ id |-> id, status |-> "queued", result |-> NULL,
                        errorMessage |-> NULL, retryCount |-> 0,
                        createdAt |-> Now, completedAt |-> NULL ])
    IN  [s EXCEPT !.jobs = [k \in DOMAIN s.jobs \cup {id} |->
                                IF k = id THEN job ELSE s.jobs[k]]]

\* variant of updateJob: an id the Map does not have is set to the updates
updateJobUpsert(s, id, updates) ==
    [s EXCEPT !.jobs = [k \in DOMAIN s.jobs \cup {id} |->
                           IF k # id THEN s.jobs[k]
                           ELSE IF id \in DOMAIN s.jobs THEN Assign(s.jobs[id], updates)
                           ELSE updates]]

updateJob(s, id, updates) ==
    IF id \in DOMAIN s.jobs
    THEN [s EXCEPT !.jobs[id] = Assign(@, updates)]
    ELSE s

deleteJob(s, id) ==
    [s EXCEPT !.jobs = [k \in DOMAIN s.jobs \ {id} |-> s.jobs[k]]]

\* variant of createTransaction: a withdrawal is debited when it is paid out,
\* not when it is requested
createTransactionNoDebit(s, insertTransaction) ==
    LET transaction == Assign(insertTransaction,
                              [ status |-> "pending", transactionHash |-> NULL,
                                createdAt |-> Now, completedAt |-> NULL ])
    IN  [s EXCEPT !.transactions = Append(@, transaction)]

createTransaction(s, insertTransaction) ==
    LET transaction == Assign(insertTransaction,
                              [ status |-> "pending", transactionHash |-> NULL,
                                createdAt |-> Now, completedAt |-> NULL ])
        s1 == [s EXCEPT !.transactions = Append(@, transaction)]
    IN  IF transaction.type = "withdrawal"
        THEN [s1 EXCEPT !.balance = @ - parseFloat(transaction.amount)]
        ELSE s1

\* the Map of settings is keyed by the key of the setting, not by its id
setSetting(s, id, key, value) ==
    IF key \in DOMAIN s.settings
    THEN [s EXCEPT !.settings[key].value = value]
    ELSE [s EXCEPT !.settings = [k \in DOMAIN s.settings \cup {key} |->
                                    IF k = key THEN [id |-> id, key |-> key, value |-> value]
                                    ELSE s.settings[k]]]

\* variant of createActivityLog: the oldest log makes room for the new one
createActivityLogRotating(s, insertLog) ==
    [s EXCEPT !.activityLogs = Append(Tail(@), Assign(insertLog, [createdAt |-> Now]))]

createActivityLog(s, insertLog) ==
    [s EXCEPT !.activityLogs = Append(@, Assign(insertLog, [createdAt |-> Now]))]

\* variant of IsCompleted: every job that was processed to its end
IsCompletedOrFailed(j) == j.status \in {"completed", "failed"}

IsCompleted(j) == j.status = "completed"
\* variant of IsPendingWithdrawal: every withdrawal, paid out or not
IsPendingWithdrawalAnyStatus(tx) == tx.type = "withdrawal"

IsPendingWithdrawal(tx) == tx.type = "withdrawal" /\ tx.status = "pending"
Amounts(txs) == [k \in 1..Len(txs) |-> parseFloat(txs[k].amount)]

\* jobsCompletedToday compares createdAt with the calendar day and is left
\* out with the clock
getDashboardStats(s) ==
    LET completedJobs == Cardinality({id \in DOMAIN s.jobs : IsCompleted(s.jobs[id])})
        totalJobs == Cardinality(DOMAIN s.jobs)
    IN  [ totalEarnings |-> s.totalEarnings,
          balance |-> s.balance,
          \* a pair (numerator, denominator) of the quotient, 0 when no jobs
          successRate |-> IF totalJobs > 0 THEN <<completedJobs * 100, totalJobs>>
                          ELSE <<0, 1>>,
          pendingWithdrawals |->
              SumSeq(Amounts(SelectSeq(s.transactions, IsPendingWithdrawal))) ]

----------------------------------------------------------------------------
(* Requests and responses *)

\* A response is a function of the store and the request, so it is an
\* operator (PostJobsResponse, DeleteJobResponse, ...) and a request that
\* is answered without a change of the store is a stuttering step.
Response(code, error) == [code |-> code, error |-> error]

\* an id no randomUUID() call has returned
UnknownId == 0
IssuedIds == 1..uuid
RequestIds == IssuedIds \cup {UnknownId}

\* the `job` of a slot whose job is in the Map: a record, as the Job objects
\* are
NoJob == [id |-> UnknownId]

\* a free slot of reqs
Idle == [phase |-> "idle", id |-> UnknownId, call |-> NULL, job |-> NoJob]
InFlight == {r \in DOMAIN reqs : reqs[r].phase # "idle"}
\* variant of LoopFree: the external call is synchronous, so a handler
\* holds the event loop from its first step to its last
LoopFreeSyncCall == \A r \in DOMAIN reqs : reqs[r].phase = "idle"

\* a handler that threw before its first real await still holds the event
\* loop: no other handler runs until its catch block has finished
LoopFree == \A r \in DOMAIN reqs : reqs[r].phase # "thrown"
\* room for the activity log every store-changing request appends
LogRoom == Len(storage.activityLogs) + Cardinality(InFlight) < DemoLogs + MaxNewLogs

\* the Job object a suspended handler holds in `job`: the object in the Map
\* while the Map has it (updateJob assigns into that same object), and the
\* object as it was when deleteJob dropped it afterwards
Deref(req) == IF req.id \in DOMAIN storage.jobs THEN storage.jobs[req.id] ELSE req.job

\* the requests of one kind handled since startup: each appended an
\* activity log with its own action text
Handled(action) ==
    Cardinality({k \in DOMAIN storage.activityLogs :
                    k > DemoLogs /\ storage.activityLogs[k].action = action})

\* GET /api/stats
GetStatsResponse == [code |-> 200, body |-> getDashboardStats(storage)]

GetStats ==
    /\ LoopFree
    /\ GetStatsResponse.code = 200
    /\ UNCHANGED <<storage, openaiModule, uuid, reqs>>

(* POST /api/jobs *)

InsertJobKeys == {"platformId", "externalId", "type", "subType", "reward", "data"}
InsertJobRequired == {"type", "reward"}

\* insertJobSchema.parse: the required keys must be there, the keys the
\* schema omits are stripped, a missing optional key reads as NULL
insertJobSchema(body) ==
    IF InsertJobRequired \subseteq DOMAIN body
    THEN [ok |-> TRUE,
          data |-> [k \in InsertJobKeys |-> IF k \in DOMAIN body THEN body[k] ELSE NULL]]
    ELSE [ok |-> FALSE, data |-> "ZodError"]

JobBodies ==
    { [type |-> "captcha", reward |-> "0.0200", data |-> [NoData EXCEPT !.text = "2+2=?"]],
      [type |-> "typing", reward |-> "-0.0100",
       data |-> [NoData EXCEPT !.text = "a,b", !.format = "json"],
       status |-> "completed", retryCount |-> 7, completedAt |-> Now, id |-> 2],
      [type |-> "captcha", reward |-> "0.0000", data |-> NoData, result |-> "done"],
      [type |-> "survey", reward |-> "0.0100", data |-> NoData],
      [type |-> "captcha"] }

PostJobsResponse(body) ==
    IF insertJobSchema(body).ok THEN Response(201, NULL) ELSE Response(400, "ZodError")

PostJobs(body) ==
    /\ LoopFree
    /\ UNCHANGED <<openaiModule, reqs>>
    /\ LET data == insertJobSchema(body).data
       IN  IF PostJobsResponse(body).code = 400
           THEN UNCHANGED <<storage, uuid>>
           ELSE /\ LogRoom
                /\ Handled("New job created") < MaxNewJobs
                /\ uuid' = uuid + 1
                /\ storage' = createActivityLog(
                                 createJob(storage, uuid', data),
                                 [ jobId |-> uuid', action |-> "New job created",
                                   details |-> data.type, status |-> "info" ])

\* variant of DeleteJobResponse: the route leaves the check to the store
DeleteJobResponseUnchecked(id) == Response(200, NULL)

\* DELETE /api/jobs/:id
DeleteJobResponse(id) ==
    IF getJob(storage, id) = {} THEN Response(404, "Job not found") ELSE Response(200, NULL)

DeleteJob(id) ==
    /\ LoopFree
    /\ UNCHANGED <<openaiModule, uuid>>
    /\ IF DeleteJobResponse(id).code = 404
       THEN UNCHANGED <<storage, reqs>>
       ELSE /\ LogRoom
            /\ storage' = createActivityLog(
                             deleteJob(storage, id),
                             [ jobId |-> UnknownId, action |-> "Job cancelled",
                               details |-> id, status |-> "info" ])
            \* the handlers suspended on this job keep the object alive
            /\ reqs' = [r \in DOMAIN reqs |->
                           IF reqs[r].phase # "idle" /\ reqs[r].id = id
                           THEN [reqs[r] EXCEPT !.job = storage.jobs[id]]
                           ELSE reqs[r]]

(* POST /api/platforms *)

InsertPlatformKeys == {"name", "apiKey", "apiUrl", "status"}
InsertPlatformRequired == {"name", "apiUrl"}

\* insertPlatformSchema.parse: id, jobsCompleted and successRate are omitted
\* and stripped, status is not
insertPlatformSchema(body) ==
    IF InsertPlatformRequired \subseteq DOMAIN body
    THEN [ok |-> TRUE,
          data |-> [k \in InsertPlatformKeys |-> IF k \in DOMAIN body THEN body[k] ELSE NULL]]
    ELSE [ok |-> FALSE, data |-> "ZodError"]

PlatformBodies ==
    { [name |-> "2Captcha", apiKey |-> "x", apiUrl |-> "https://api.2captcha.com"],
      [name |-> "2Captcha", apiKey |-> "x", apiUrl |-> "https://api.2captcha.com",
       status |-> "error"],
      [name |-> "2Captcha", apiKey |-> "x", apiUrl |-> "https://api.2captcha.com",
       status |-> "disconnected", jobsCompleted |-> 7, successRate |-> "99.9", id |-> 1],
      [apiKey |-> "x"] }

PostPlatformsResponse(body) ==
    IF insertPlatformSchema(body).ok THEN Response(201, NULL) ELSE Response(400, "ZodError")

PostPlatforms(body) ==
    /\ LoopFree
    /\ UNCHANGED <<openaiModule, reqs>>
    /\ LET data == insertPlatformSchema(body).data
       IN  IF PostPlatformsResponse(body).code = 400
           THEN UNCHANGED <<storage, uuid>>
           ELSE /\ LogRoom
                /\ Handled("Platform connected") < MaxNewPlatforms
                /\ uuid' = uuid + 1
                /\ storage' = createActivityLog(
                                 createPlatform(storage, uuid', data),
                                 [ jobId |-> UnknownId, action |-> "Platform connected",
                                   details |-> data.name, status |-> "success" ])

\* DELETE /api/platforms/:id
DeletePlatformResponse(id) ==
    IF getPlatform(storage, id) = {} THEN Response(404, "Platform not found")
    ELSE Response(200, NULL)

DeletePlatform(id) ==
    /\ LoopFree
    /\ UNCHANGED <<openaiModule, uuid, reqs>>
    /\ IF DeletePlatformResponse(id).code = 404
       THEN UNCHANGED storage
       ELSE /\ LogRoom
            /\ storage' = createActivityLog(
                             deletePlatform(storage, id),
                             [ jobId |-> UnknownId, action |-> "Platform disconnected",
                               details |-> storage.platforms[id].name, status |-> "info" ])

(* POST /api/settings/auto-process *)

\* the body is not validated: `enabled` is a boolean or is missing
SettingsBodies == { [enabled |-> TRUE], [enabled |-> FALSE], [auto |-> TRUE] }

PostSettings(body) ==
    /\ LoopFree
    /\ UNCHANGED <<openaiModule, reqs>>
    /\ LogRoom
    /\ uuid' = IF "auto-process" \in DOMAIN storage.settings THEN uuid ELSE uuid + 1
    /\ LET \* { enabled }: the key is there, undefined when the body has none
           value == [k \in DOMAIN body \cap {"enabled"} |-> body[k]]
           enabled == "enabled" \in DOMAIN body /\ body.enabled
       IN  storage' = createActivityLog(
                         setSetting(storage, uuid + 1, "auto-process", value),
                         [ jobId |-> UnknownId,
                           action |-> IF enabled THEN "Auto-processing enabled"
                                      ELSE "Auto-processing disabled",
                           details |-> NULL, status |-> "info" ])

(* POST /api/jobs/:id/process *)

Calls == {"solveCaptchaImage", "solveCaptchaText", "transcribeImage", "processDataEntry"}

\* variant of Route: a typing job with a text needs no format
RouteTextOnly(job) ==
    IF job.type = "captcha"
    THEN IF Truthy(job.data.imageUrl) THEN [call |-> "solveCaptchaImage", thrown |-> NULL]
         ELSE IF Truthy(job.data.text) THEN [call |-> "solveCaptchaText", thrown |-> NULL]
         ELSE [call |-> NULL, thrown |-> "No CAPTCHA data provided"]
    ELSE IF job.type = "typing"
    THEN IF Truthy(job.data.imageUrl) THEN [call |-> "transcribeImage", thrown |-> NULL]
         ELSE IF Truthy(job.data.text) THEN [call |-> "processDataEntry", thrown |-> NULL]
         ELSE [call |-> NULL, thrown |-> "No typing data provided"]
    ELSE [call |-> NULL, thrown |-> "Unknown job type"]

\* variant of Route: a text payload is looked at before an image payload
RouteTextFirst(job) ==
    IF job.type = "captcha"
    THEN IF Truthy(job.data.text) THEN [call |-> "solveCaptchaText", thrown |-> NULL]
         ELSE IF Truthy(job.data.imageUrl) THEN [call |-> "solveCaptchaImage", thrown |-> NULL]
         ELSE [call |-> NULL, thrown |-> "No CAPTCHA data provided"]
    ELSE IF job.type = "typing"
    THEN IF Truthy(job.data.text) /\ Truthy(job.data.format)
              THEN [call |-> "processDataEntry", thrown |-> NULL]
         ELSE IF Truthy(job.data.imageUrl) THEN [call |-> "transcribeImage", thrown |-> NULL]
         ELSE [call |-> NULL, thrown |-> "No typing data provided"]
    ELSE [call |-> NULL, thrown |-> "Unknown job type"]

\* the router of the handler: the external operation to call, or the
\* message of the Error thrown before any call
Route(job) ==
    IF job.type = "captcha"
    THEN IF Truthy(job.data.imageUrl) THEN [call |-> "solveCaptchaImage", thrown |-> NULL]
         ELSE IF Truthy(job.data.text) THEN [call |-> "solveCaptchaText", thrown |-> NULL]
         ELSE [call |-> NULL, thrown |-> "No CAPTCHA data provided"]
    ELSE IF job.type = "typing"
    THEN IF Truthy(job.data.imageUrl) THEN [call |-> "transcribeImage", thrown |-> NULL]
         ELSE IF Truthy(job.data.text) /\ Truthy(job.data.format)
              THEN [call |-> "processDataEntry", thrown |-> NULL]
         ELSE [call |-> NULL, thrown |-> "No typing data provided"]
    ELSE [call |-> NULL, thrown |-> "Unknown job type"]

\* variant of ProcessingUpdates: a new attempt starts its retry count afresh
ProcessingUpdatesResetRetry(job) == [status |-> "processing", retryCount |-> 0]

\* variant of FailureUpdates: a failed job goes back to the queue
FailureUpdatesRequeue(job, errorMessage) ==
    [status |-> "queued", errorMessage |-> errorMessage, retryCount |-> job.retryCount + 1]

\* variant of ErrorMessage: the generic message whatever was thrown
ErrorMessageGeneric(processError) == "Processing failed"

\* variant of ProcessingUpdates: the status is left for the end of the call
ProcessingUpdatesStatusKept(job) == [status |-> job.status]

\* variant of FailureUpdates: a job that is failed already keeps its count
FailureUpdatesCountOnce(job, errorMessage) ==
    [status |-> "failed", errorMessage |-> errorMessage,
     retryCount |-> IF job.status = "failed" THEN job.retryCount ELSE job.retryCount + 1]

\* variant of SuccessUpdates: the result is stored and the status is left
SuccessUpdatesResultOnly(job, result) == [result |-> result, completedAt |-> Now]

\* the three updateJob payloads of the handler
ProcessingUpdates(job) == [status |-> "processing"]

SuccessUpdates(job, result) ==
    [status |-> "completed", result |-> result, completedAt |-> Now]

FailureUpdates(job, errorMessage) ==
    [status |-> "failed", errorMessage |-> errorMessage, retryCount |-> job.retryCount + 1]

\* the message the inner catch block keeps
ErrorMessage(processError) ==
    IF processError.isError THEN processError.message ELSE "Processing failed"

FreeSlot == CHOOSE r \in DOMAIN reqs :
                /\ reqs[r].phase = "idle"
                /\ \A q \in DOMAIN reqs : reqs[q].phase = "idle" => r <= q

\* variant of ProcessEarlyResponse: the module check comes first
ProcessEarlyResponseModuleFirst(id) ==
    IF ~openaiModule THEN Response(503, "AI processing not available")
    ELSE IF getJob(storage, id) = {} THEN Response(404, "Job not found")
    ELSE Response(0, NULL)

\* variant of ProcessEarlyResponse: a job that is processing is refused
ProcessEarlyResponseBusy(id) ==
    IF getJob(storage, id) = {} THEN Response(404, "Job not found")
    ELSE IF ~openaiModule THEN Response(503, "AI processing not available")
    ELSE IF storage.jobs[id].status = "processing" THEN Response(409, "Job is processing")
    ELSE Response(0, NULL)

\* the two early returns of the handler; code 0: neither is taken and the
\* response is sent by the second step
ProcessEarlyResponse(id) ==
    IF getJob(storage, id) = {} THEN Response(404, "Job not found")
    ELSE IF ~openaiModule THEN Response(503, "AI processing not available")
    ELSE Response(0, NULL)

\* up to the external call: the lookups, the move to processing, the router
ProcessBegin(id) ==
    /\ LoopFree
    /\ UNCHANGED <<openaiModule, uuid>>
    /\ IF ProcessEarlyResponse(id).code # 0
       THEN UNCHANGED <<storage, reqs>>
       ELSE /\ LogRoom
            /\ Cardinality(InFlight) < MaxInFlight
            /\ storage' = updateJob(storage, id, ProcessingUpdates(storage.jobs[id]))
            /\ LET route == Route(storage.jobs[id])
               IN  reqs' = [reqs EXCEPT ![FreeSlot] =
                              IF route.call # NULL
                              THEN [phase |-> "calling", id |-> id, call |-> route.call, job |-> NoJob]
                              ELSE [phase |-> "thrown", id |-> id, call |-> route.thrown, job |-> NoJob]]

\* the texts an external operation returns
Results == {"4", "7h3k"}

\* variant of OnResult: the result is written to every job that is
\* processing, not to the job of the request alone
OnResultEveryProcessing(s, job, result) ==
    LET s1 == [s EXCEPT !.jobs = [id \in DOMAIN s.jobs |->
                   IF s.jobs[id].status = "processing"
                   THEN Assign(s.jobs[id], SuccessUpdates(job, result))
                   ELSE s.jobs[id]]]
        s2 == createTransaction(s1,
                        [ jobId |-> job.id, type |-> "earning", amount |-> job.reward,
                          paymentMethod |-> NULL, paymentAddress |-> NULL ])
        s3 == updateUserBalance(s2, "default", parseFloat(job.reward))
    IN  createActivityLog(s3,
                        [ jobId |-> job.id,
                          action |-> IF job.type = "captcha" THEN "CAPTCHA solved"
                                     ELSE "Typing job completed",
                          details |-> job.reward, status |-> "success" ])

\* the store after the statements that follow a call that returned `result`,
\* run on store s by a handler that holds `job`
OnResult(s, job, result) ==
    LET s1 == updateJob(s, job.id, SuccessUpdates(job, result))
        s2 == createTransaction(s1,
                        [ jobId |-> job.id, type |-> "earning", amount |-> job.reward,
                          paymentMethod |-> NULL, paymentAddress |-> NULL ])
        s3 == updateUserBalance(s2, "default", parseFloat(job.reward))
    IN  createActivityLog(s3,
                        [ jobId |-> job.id,
                          action |-> IF job.type = "captcha" THEN "CAPTCHA solved"
                                     ELSE "Typing job completed",
                          details |-> job.reward, status |-> "success" ])

\* after the external call has returned `result`
ProcessSucceed(r, result) ==
    /\ reqs[r].phase = "calling"
    /\ LoopFree
    /\ storage' = OnResult(storage, Deref(reqs[r]), result)
    /\ reqs' = [reqs EXCEPT ![r] = Idle]
    /\ UNCHANGED <<openaiModule, uuid>>

\* what an external operation rejects with: an Error with a message, or a
\* value that is no Error
Rejections == { [isError |-> TRUE, message |-> "Rate limit exceeded"],
                [isError |-> FALSE, message |-> NULL] }

\* variant of OnError: the failure of a job that is no longer in the store
\* is not logged
OnErrorStoredOnly(s, job, processError) ==
    LET errorMessage == ErrorMessage(processError)
        s1 == updateJob(s, job.id, FailureUpdates(job, errorMessage))
    IN  IF job.id \in DOMAIN s.jobs
        THEN createActivityLog(s1,
                        [ jobId |-> job.id, action |-> "Job failed",
                          details |-> errorMessage, status |-> "error" ])
        ELSE s1

\* the store after the inner catch block, run on store s by a handler that
\* holds `job`
OnError(s, job, processError) ==
    LET errorMessage == ErrorMessage(processError)
        s1 == updateJob(s, job.id, FailureUpdates(job, errorMessage))
    IN  createActivityLog(s1,
                        [ jobId |-> job.id, action |-> "Job failed",
                          details |-> errorMessage, status |-> "error" ])

\* the inner catch block
Catch(r, processError) ==
    /\ storage' = OnError(storage, Deref(reqs[r]), processError)
    /\ reqs' = [reqs EXCEPT ![r] = Idle]
    /\ UNCHANGED <<openaiModule, uuid>>

\* after the external call has rejected
ProcessFail(r, processError) ==
    /\ reqs[r].phase = "calling"
    /\ LoopFree
    /\ Catch(r, processError)

\* after the router has thrown
ProcessThrown(r) ==
    /\ reqs[r].phase = "thrown"
    /\ Catch(r, [isError |-> TRUE, message |-> reqs[r].call])

(* POST /api/withdrawals *)

WithdrawalMethods == {"paypal", "bitcoin", "ethereum", "usdt"}

\* the minimum the withdrawal form of the client shows for each method
minWithdrawals == [paypal |-> 50000, bitcoin |-> 100000, ethereum |-> 100000, usdt |-> 100000]

\* withdrawalRequestSchema.parse
withdrawalRequestSchema(body) ==
    /\ body.amount > 0
    /\ body.paymentMethod \in WithdrawalMethods
    /\ Len(body.paymentAddress) >= 1

WithdrawalBodies ==
    { [amount |-> 50000, paymentMethod |-> "paypal", paymentAddress |-> "a@b.c"],
      [amount |-> 254523, paymentMethod |-> "usdt", paymentAddress |-> "0xabc"],
      [amount |-> 300000, paymentMethod |-> "bitcoin", paymentAddress |-> "bc1q"],
      [amount |-> 100, paymentMethod |-> "bitcoin", paymentAddress |-> "bc1q"],
      [amount |-> 100, paymentMethod |-> "ethereum", paymentAddress |-> "0xdef"],
      [amount |-> 0, paymentMethod |-> "ethereum", paymentAddress |-> "0xdef"],
      [amount |-> 50000, paymentMethod |-> "bank", paymentAddress |-> "a@b.c"],
      [amount |-> 50000, paymentMethod |-> "paypal", paymentAddress |-> ""] }

\* variant of PostWithdrawalsResponse: the body is validated and the balance
\* is not looked at
PostWithdrawalsResponseSchemaOnly(body) ==
    IF ~withdrawalRequestSchema(body) THEN Response(400, "ZodError")
    ELSE Response(201, NULL)

\* variant of PostWithdrawalsResponse: the amount is held against the earnings
PostWithdrawalsResponseAgainstEarnings(body) ==
    IF ~withdrawalRequestSchema(body) THEN Response(400, "ZodError")
    ELSE IF body.amount > getDashboardStats(storage).totalEarnings
    THEN Response(400, "Insufficient balance")
    ELSE Response(201, NULL)

PostWithdrawalsResponse(body) ==
    IF ~withdrawalRequestSchema(body) THEN Response(400, "ZodError")
    ELSE IF body.amount > getDashboardStats(storage).balance
    THEN Response(400, "Insufficient balance")
    ELSE Response(201, NULL)

PostWithdrawals(body) ==
    /\ LoopFree
    /\ UNCHANGED <<openaiModule, uuid, reqs>>
    /\ IF PostWithdrawalsResponse(body).code = 400
       THEN UNCHANGED storage
       ELSE /\ LogRoom
            /\ storage' = createActivityLog(
                             createTransaction(storage,
                                [ jobId |-> UnknownId, type |-> "withdrawal",
                                  amount |-> toString(body.amount),
                                  paymentMethod |-> body.paymentMethod,
                                  paymentAddress |-> body.paymentAddress ]),
                             [ jobId |-> UnknownId, action |-> "Withdrawal requested",
                               details |-> body.paymentMethod, status |-> "info" ])

----------------------------------------------------------------------------
(* The server *)

Init ==
    /\ \E seed \in DemoSeeds : storage = initDemoData(seed)
    /\ openaiModule \in BOOLEAN
    /\ uuid = 1 + DemoJobs
    /\ reqs = [r \in 1..MaxInFlight |-> Idle]

Next ==
    \/ GetStats
    \/ \E body \in JobBodies : PostJobs(body)
    \/ \E id \in RequestIds : DeleteJob(id)
    \/ \E id \in RequestIds : ProcessBegin(id)
    \/ \E r \in DOMAIN reqs, result \in Results : ProcessSucceed(r, result)
    \/ \E r \in DOMAIN reqs, e \in Rejections : ProcessFail(r, e)
    \/ \E r \in DOMAIN reqs : ProcessThrown(r)
    \/ \E body \in WithdrawalBodies : PostWithdrawals(body)
    \/ \E body \in PlatformBodies : PostPlatforms(body)
    \/ \E id \in RequestIds : DeletePlatform(id)
    \/ \E body \in SettingsBodies : PostSettings(body)

Spec == Init /\ [][Next]_vars

(* The store on its own: the job methods of MemStorage called in any order, *)
(* as a caller of the class may, without the checks and the logs of the     *)
(* routes.                                                                  *)

StoreDeleteJob(id) ==
    /\ storage' = deleteJob(storage, id)
    /\ UNCHANGED <<openaiModule, uuid, reqs>>

StoreUpdateJob(id, updates) ==
    /\ storage' = updateJob(storage, id, updates)
    /\ UNCHANGED <<openaiModule, uuid, reqs>>

StoreGetDashboardStats ==
    /\ getDashboardStats(storage).successRate \in Int \X Int
    /\ UNCHANGED vars

NextStore ==
    \/ \E id \in RequestIds : StoreDeleteJob(id)
    \/ \E id \in RequestIds, k \in DOMAIN Statuses : StoreUpdateJob(id, [status |-> Statuses[k]])
    \/ StoreGetDashboardStats

SpecStore == Init /\ [][NextStore]_vars

(* The process handler over every payload the router tells apart: jobs of  *)
(* each type with and without an image, a text and a format are created    *)
(* through POST /api/jobs and processed.                                    *)

RouteTypes == {"captcha", "typing", "survey"}
RouteBodies ==
    { [type |-> t, reward |-> "0.0100",
       data |-> [imageUrl |-> i, text |-> x, format |-> f]] :
          t \in RouteTypes, i \in {NULL, "https://img/1.png"},
          x \in {NULL, "a,b"}, f \in {NULL, "json"} }

NextRoute ==
    \/ \E body \in RouteBodies : PostJobs(body)
    \/ \E id \in RequestIds : ProcessBegin(id)
    \/ \E r \in DOMAIN reqs, result \in Results : ProcessSucceed(r, result)
    \/ \E r \in DOMAIN reqs, e \in Rejections : ProcessFail(r, e)
    \/ \E r \in DOMAIN reqs : ProcessThrown(r)

SpecRoute == Init /\ [][NextRoute]_vars

(* The process and the delete requests when every external call returns:   *)
(* a call in flight ends with a result or with a rejection, and a handler   *)
(* whose router has thrown runs through its catch block, which has no       *)
(* suspension.  The number of requests is bounded, so a call is disabled    *)
(* by the catch block of another handler finitely often and weak fairness   *)
(* is enough.                                                               *)

CallReturns(r) ==
    \/ \E result \in Results : ProcessSucceed(r, result)
    \/ \E e \in Rejections : ProcessFail(r, e)

NextProcess ==
    \/ \E id \in RequestIds : ProcessBegin(id)
    \/ \E r \in DOMAIN reqs : CallReturns(r)
    \/ \E r \in DOMAIN reqs : ProcessThrown(r)
    \/ \E id \in RequestIds : DeleteJob(id)

Fairness ==
    \A r \in 1..MaxInFlight : WF_vars(CallReturns(r)) /\ WF_vars(ProcessThrown(r))

SpecFair == Init /\ [][NextProcess]_vars /\ Fairness

----------------------------------------------------------------------------
(* Properties *)

jobs == storage.jobs

\* a step that is no stuttering step; [A]_vars and [Changed => A]_vars are
\* the same formula, and the second decides a stuttering step at once
Changed == vars' # vars
Stored(id) == id \in DOMAIN storage.jobs
StoredNext(id) == id \in DOMAIN storage'.jobs

\* what a step appended to the transactions and to the activity logs
NewTransactions ==
    SubSeq(storage'.transactions, Len(storage.transactions) + 1, Len(storage'.transactions))
NewLogs ==
    SubSeq(storage'.activityLogs, Len(storage.activityLogs) + 1, Len(storage'.activityLogs))
TransactionsKept ==
    /\ Len(storage'.transactions) >= Len(storage.transactions)
    /\ SubSeq(storage'.transactions, 1, Len(storage.transactions)) = storage.transactions
LogsKept ==
    /\ Len(storage'.activityLogs) >= Len(storage.activityLogs)
    /\ SubSeq(storage'.activityLogs, 1, Len(storage.activityLogs)) = storage.activityLogs

IsEarning(tx) == tx.type = "earning"
IsWithdrawal(tx) == tx.type = "withdrawal"
\* the earnings less the withdrawals of the ledger, whatever their status
LedgerSum(s) ==
    SumSeq(Amounts(SelectSeq(s.transactions, IsEarning)))
      - SumSeq(Amounts(SelectSeq(s.transactions, IsWithdrawal)))

\* what the success path does apart from the update of the job
SuccessLedger(r) ==
    LET job == Deref(reqs[r])
    IN  /\ TransactionsKept
        /\ Len(NewTransactions) = 1
        /\ NewTransactions[1].type = "earning"
        /\ NewTransactions[1].jobId = job.id
        /\ NewTransactions[1].amount = job.reward
        /\ getDashboardStats(storage').balance
             = getDashboardStats(storage).balance + parseFloat(job.reward)

SuccessJob(r, result) ==
    LET id == reqs[r].id
    IN  /\ StoredNext(id)
        /\ storage'.jobs[id].status = "completed"
        /\ storage'.jobs[id].result = result

Insufficient(body) ==
    withdrawalRequestSchema(body) /\ body.amount > getDashboardStats(storage).balance

\* C2: a withdrawal request for more than the current balance is answered
\* 400 and changes nothing in the store: no transaction, no activity log,
\* balance, totalEarnings and pendingWithdrawals as before.
C2_InsufficientRejected ==
    /\ [](\A body \in WithdrawalBodies :
            Insufficient(body) => PostWithdrawalsResponse(body).code = 400)
    /\ [][Changed =>
            \A body \in WithdrawalBodies :
                Insufficient(body) /\ PostWithdrawals(body) =>
                    /\ storage' = storage
                    /\ getDashboardStats(storage') = getDashboardStats(storage)]_vars

\* a state where a request that was within the balance at startup is refused
C2_Witness ==
    \E body \in WithdrawalBodies :
        /\ Insufficient(body)
        /\ body.amount <= DemoBalance
        /\ Len(storage.transactions) > DemoTransactions

\* C3 as stated: in every reachable state, the store at startup included,
\* the balance equals the earnings of the ledger less its withdrawals.
C3_BalanceIsLedgerSum == storage.balance = LedgerSum(storage)

CompletedAtMatches(job) == job.completedAt # NULL <=> job.status = "completed"

\* C4 as stated: for every job in the store completedAt is set if and only
\* if the status is completed.
C4_CompletedAtIffCompleted == \A id \in DOMAIN jobs : CompletedAtMatches(jobs[id])

Edges == { <<"queued", "processing">>, <<"processing", "completed">>,
           <<"processing", "failed">> }

\* C5 as stated: the status of a job changes only from queued to processing
\* and from processing to completed or failed.
C5_StatusEdges ==
    [][\A id \in DOMAIN storage.jobs \cap DOMAIN storage'.jobs :
          \/ storage'.jobs[id].status = storage.jobs[id].status
          \/ <<storage.jobs[id].status, storage'.jobs[id].status>> \in Edges]_vars

\* C6: a job that has left queued (or the store) is never queued again, and
\* a job becomes processing only in the first step of a process request.
C6_NeverRequeued ==
    [][/\ \A id \in IssuedIds :
             (~Stored(id) \/ jobs[id].status # "queued")
                => (StoredNext(id) => storage'.jobs[id].status # "queued")
       /\ \A id \in DOMAIN storage.jobs \cap DOMAIN storage'.jobs :
             (jobs[id].status # "processing" /\ storage'.jobs[id].status = "processing")
                => ProcessBegin(id)]_vars

\* the job seeded as queued, or a created job, after it has been processed
C6_Witness ==
    \E id \in DOMAIN jobs :
        /\ id = DemoJobId(0) \/ id > 1 + DemoJobs
        /\ jobs[id].status \in {"completed", "failed"}

\* C7: the retry count of a job never decreases, and it changes only in a
\* step that sets the status of that job to failed.
C7_RetryCountMonotone ==
    [][\A id \in DOMAIN storage.jobs \cap DOMAIN storage'.jobs :
          /\ storage'.jobs[id].retryCount >= jobs[id].retryCount
          /\ storage'.jobs[id].retryCount # jobs[id].retryCount
                => storage'.jobs[id].status = "failed"]_vars

\* a seeded failed job that was processed and failed again
C7_Witness ==
    \E id \in DOMAIN jobs :
        jobs[id].retryCount > DemoRetryCount /\ jobs[id].status = "failed"

CreatedJobOk(s, id) ==
    /\ id \in DOMAIN s.jobs
    /\ s.jobs[id].id = id
    /\ s.jobs[id].status = "queued"
    /\ s.jobs[id].retryCount = 0
    /\ s.jobs[id].result = NULL
    /\ s.jobs[id].errorMessage = NULL
    /\ s.jobs[id].completedAt = NULL

\* C8: the job createJob stores is queued, with retry count 0 and with
\* result, errorMessage and completedAt null, under an id no other job has,
\* whatever fields the input carries: for the parsed body the route passes
\* and for a body passed as it came.
C8_CreatedJobDefaults ==
    /\ [](\A body \in JobBodies : CreatedJobOk(createJob(storage, uuid + 1, body), uuid + 1))
    /\ [][\A body \in JobBodies :
            (PostJobs(body) /\ PostJobsResponse(body).code = 201) =>
                /\ uuid' \notin IssuedIds
                /\ CreatedJobOk(storage', uuid')
                /\ \A id \in DOMAIN storage.jobs :
                      StoredNext(id) /\ storage'.jobs[id] = jobs[id]]_vars

\* the job created from the body that carried status, retryCount and id
C8_Witness ==
    \E id \in DOMAIN jobs :
        /\ id > 1 + DemoJobs
        /\ jobs[id].type = "typing"
        /\ jobs[id].status = "queued"

\* C9: a process request for an id that is not in the store is answered 404,
\* also when no completion module is loaded; for a stored job without a
\* completion module it is answered 503; both leave the store as it was
\* and suspend no handler.
C9_ProcessPreconditions ==
    /\ [](\A id \in RequestIds :
            /\ ~Stored(id) => ProcessEarlyResponse(id).code = 404
            /\ Stored(id) /\ ~openaiModule => ProcessEarlyResponse(id).code = 503)
    /\ [][\A id \in RequestIds :
            (ProcessBegin(id) /\ (~Stored(id) \/ ~openaiModule))
                => storage' = storage /\ reqs' = reqs]_vars

\* no module loaded, an id that was deleted and a job that is stored
C9_Witness ==
    /\ ~openaiModule
    /\ \E id \in IssuedIds \ {PlatformId} : ~Stored(id)
    /\ \E id \in IssuedIds : Stored(id)

\* the message of a failure: that of the Error, a fixed text otherwise
FailureText(e) == IF e.isError THEN e.message ELSE "Processing failed"

\* what the failure path does apart from the update of the job
FailureLedger(e) ==
    /\ LogsKept
    /\ Len(NewLogs) = 1
    /\ NewLogs[1].status = "error"
    /\ NewLogs[1].details = FailureText(e)
    /\ storage'.transactions = storage.transactions
    /\ storage'.balance = storage.balance
    /\ storage'.totalEarnings = storage.totalEarnings

FailureJob(r, e) ==
    LET id == reqs[r].id
    IN  /\ StoredNext(id)
        /\ storage'.jobs[id].status = "failed"
        /\ storage'.jobs[id].errorMessage = FailureText(e)
        /\ storage'.jobs[id].retryCount = Deref(reqs[r]).retryCount + 1

\* C10 as stated: when the external call of a process request fails, the job
\* is set to failed with the message of the failure and a retry count one
\* higher, one error activity log is appended, no transaction is created and
\* balance and totalEarnings stay.
C10_FailureMarksJob ==
    [][\A r \in DOMAIN reqs, e \in Rejections :
          ProcessFail(r, e) => FailureJob(r, e) /\ FailureLedger(e)]_vars

\* C10 amended: when the external call of a process request fails, one error
\* activity log is appended, no transaction is created and balance and
\* totalEarnings stay; the job is set to failed with the message of the
\* failure (the text "Processing failed" when the failure is no Error) and
\* a retry count one higher if it is still in the store, and no job is
\* changed if it was deleted meanwhile.
C10_FailureEffects ==
    [][\A r \in DOMAIN reqs, e \in Rejections :
          ProcessFail(r, e) =>
              /\ FailureLedger(e)
              /\ Stored(reqs[r].id) => FailureJob(r, e)
              /\ ~Stored(reqs[r].id) => storage'.jobs = storage.jobs]_vars

\* a job that a failed external call left failed once, with the Error's message
C10_Witness ==
    \E id \in DOMAIN jobs :
        /\ jobs[id].status = "failed"
        /\ jobs[id].retryCount = 1
        /\ jobs[id].errorMessage = "Rate limit exceeded"
        /\ storage.activityLogs[Len(storage.activityLogs)].status = "error"

\* a job that matches no case of the router
NoRoute(job) ==
    \/ job.type = "captcha" /\ ~Truthy(job.data.imageUrl) /\ ~Truthy(job.data.text)
    \/ /\ job.type = "typing"
       /\ ~Truthy(job.data.imageUrl)
       /\ ~(Truthy(job.data.text) /\ Truthy(job.data.format))
    \/ job.type \notin {"captcha", "typing"}

Calling(id) == {r \in DOMAIN reqs : reqs[r].phase = "calling" /\ reqs[r].id = id}
CallingNext(id) == {r \in DOMAIN reqs : reqs'[r].phase = "calling" /\ reqs'[r].id = id}

\* C11: a process request for a job that matches no routing case invokes no
\* external operation (no handler is suspended on a call for it), sets the
\* job to failed with a non-empty errorMessage and a retry count one higher,
\* and creates no transaction.
C11_UnroutedFails ==
    /\ [](\A r \in DOMAIN reqs :
            reqs[r].phase = "thrown" =>
                /\ Stored(reqs[r].id)
                /\ NoRoute(jobs[reqs[r].id])
                /\ ENABLED ProcessThrown(r))
    /\ [][Changed =>
            /\ \A id \in DOMAIN jobs :
                  (ProcessBegin(id) /\ openaiModule /\ NoRoute(jobs[id])) =>
                      /\ CallingNext(id) = Calling(id)
                      /\ \E r \in DOMAIN reqs : reqs'[r].phase = "thrown" /\ reqs'[r].id = id
                      /\ storage'.transactions = storage.transactions
            /\ \A r \in DOMAIN reqs :
                  reqs[r].phase = "thrown" =>
                      /\ ProcessThrown(r)
                      /\ reqs'[r] = Idle
                      /\ StoredNext(reqs[r].id)
                      /\ storage'.jobs[reqs[r].id].status = "failed"
                      /\ storage'.jobs[reqs[r].id].errorMessage \notin {NULL, ""}
                      /\ storage'.jobs[reqs[r].id].retryCount
                           = jobs[reqs[r].id].retryCount + 1
                      /\ storage'.transactions = storage.transactions
                      /\ storage'.balance = storage.balance]_vars

\* a created job of a type the router does not know, after it was processed
C11_Witness ==
    \E id \in DOMAIN jobs :
        /\ jobs[id].type \notin {"captcha", "typing"}
        /\ jobs[id].status = "failed"
        /\ jobs[id].errorMessage = "Unknown job type"
        /\ jobs[id].retryCount = 1

Accepted(body) == withdrawalRequestSchema(body) /\ body.amount <= storage.balance

\* C12: a withdrawal request with a positive amount not above the balance
\* (an amount equal to the balance included) is accepted for each of the
\* four payment methods, whatever minimum the client shows: it creates one
\* pending withdrawal transaction over the full requested amount, lowers
\* the balance by that amount in the same step, appends one info activity
\* log and leaves totalEarnings as it was.
C12_WithdrawalAccepted ==
    /\ [](\A body \in WithdrawalBodies :
            Accepted(body) => PostWithdrawalsResponse(body).code = 201)
    /\ [][Changed =>
            \A body \in WithdrawalBodies :
                (Accepted(body) /\ PostWithdrawals(body)) =>
                    /\ TransactionsKept
                    /\ Len(NewTransactions) = 1
                    /\ NewTransactions[1].type = "withdrawal"
                    /\ NewTransactions[1].status = "pending"
                    /\ parseFloat(NewTransactions[1].amount) = body.amount
                    /\ NewTransactions[1].paymentMethod = body.paymentMethod
                    /\ storage'.balance = storage.balance - body.amount
                    /\ LogsKept
                    /\ Len(NewLogs) = 1
                    /\ NewLogs[1].status = "info"
                    /\ storage'.totalEarnings = storage.totalEarnings]_vars

\* the newest transaction is an accepted withdrawal below the minimum the
\* client shows for its method, and the balance has gone down by it
C12_Witness ==
    /\ Len(storage.transactions) = DemoTransactions + 1
    /\ LET tx == storage.transactions[Len(storage.transactions)]
       IN  /\ tx.type = "withdrawal"
           /\ tx.status = "pending"
           /\ tx.paymentMethod \in {"bitcoin", "ethereum"}
           /\ parseFloat(tx.amount) < minWithdrawals[tx.paymentMethod]
           /\ storage.balance = DemoBalance - parseFloat(tx.amount)

\* the amounts of the pending withdrawals among the first n transactions
RECURSIVE PendingSum(_, _)
PendingSum(txs, n) ==
    IF n = 0 THEN 0
    ELSE PendingSum(txs, n - 1)
           + (IF txs[n].type = "withdrawal" /\ txs[n].status = "pending"
              THEN parseFloat(txs[n].amount) ELSE 0)

pendingWithdrawals == getDashboardStats(storage).pendingWithdrawals
pendingWithdrawalsNext == getDashboardStats(storage').pendingWithdrawals

\* C13: the pendingWithdrawals of the stats is the sum of the amounts of the
\* transactions that are withdrawals and pending; an accepted withdrawal
\* request raises it by the requested amount, and a step that adds only
\* earning transactions (or none) leaves it as it was.
C13_PendingWithdrawals ==
    /\ [](pendingWithdrawals = PendingSum(storage.transactions, Len(storage.transactions)))
    /\ [][Changed =>
            /\ \A body \in WithdrawalBodies :
                  (Accepted(body) /\ PostWithdrawals(body)) =>
                      pendingWithdrawalsNext = pendingWithdrawals + body.amount
            /\ (TransactionsKept /\ \A k \in DOMAIN NewTransactions : IsEarning(NewTransactions[k]))
                  => pendingWithdrawalsNext = pendingWithdrawals]_vars

\* an accepted withdrawal and an earning were added to the seeded ledger
C13_Witness ==
    /\ \E k \in DOMAIN storage.transactions :
          k > DemoTransactions /\ IsPendingWithdrawal(storage.transactions[k])
    /\ \E k \in DOMAIN storage.transactions :
          k > DemoTransactions /\ IsEarning(storage.transactions[k])
    /\ pendingWithdrawals
         > PendingSum(storage.transactions, DemoTransactions)

RECURSIVE CountCompleted(_, _)
CountCompleted(s, ids) ==
    IF ids = {} THEN 0
    ELSE LET id == CHOOSE x \in ids : TRUE
         IN  (IF s.jobs[id].status = "completed" THEN 1 ELSE 0)
               + CountCompleted(s, ids \ {id})

\* C14 (store on its own): the successRate of the stats, a quotient num/den,
\* is 100 times the completed jobs over the jobs in the store, lies between
\* 0 and 100, and is 0 when the store holds no job.
C14_SuccessRate ==
    LET rate == getDashboardStats(storage).successRate
        num == rate[1]
        den == rate[2]
        total == Cardinality(DOMAIN jobs)
    IN  /\ den > 0
        /\ num * total = 100 * CountCompleted(storage, DOMAIN jobs) * den
        /\ 0 <= num /\ num <= 100 * den
        /\ total = 0 => num = 0

\* every job was deleted
C14_Witness ==
    /\ DOMAIN jobs = {}
    /\ getDashboardStats(storage).successRate[1] = 0

\* C15: deleteJob for an id that is not in the store changes nothing, so
\* deleting twice is deleting once; the DELETE route answers 404 for such
\* an id and leaves the store, the activity logs included, as it was.
C15_DeleteAbsent ==
    /\ [](\A id \in RequestIds :
            /\ deleteJob(deleteJob(storage, id), id) = deleteJob(storage, id)
            /\ ~Stored(id) =>
                  /\ deleteJob(storage, id) = storage
                  /\ DeleteJobResponse(id).code = 404)
    /\ [][Changed =>
            \A id \in RequestIds :
                (~Stored(id) /\ DeleteJob(id)) =>
                    /\ storage' = storage
                    /\ NewLogs = <<>>]_vars

\* a job was deleted through the route: a second DELETE meets an absent id
C15_Witness ==
    LET log == storage.activityLogs[Len(storage.activityLogs)]
    IN  /\ log.action = "Job cancelled"
        /\ log.details \in IssuedIds
        /\ ~Stored(log.details)

CreatedPlatformOk(s, id) ==
    /\ id \in DOMAIN s.platforms
    /\ s.platforms[id].id = id
    /\ s.platforms[id].status = "connected"
    /\ s.platforms[id].jobsCompleted = 0
    /\ s.platforms[id].successRate = "0"

\* C16: the platform createPlatform stores has status connected,
\* jobsCompleted 0 and successRate "0" whatever the input carries, a status
\* of its own included: for the parsed body the route passes, which keeps
\* the status field, and for a body passed as it came.
C16_CreatedPlatformDefaults ==
    /\ [](\A body \in PlatformBodies :
            CreatedPlatformOk(createPlatform(storage, uuid + 1, body), uuid + 1))
    /\ [][Changed =>
            \A body \in PlatformBodies :
                (PostPlatforms(body) /\ PostPlatformsResponse(body).code = 201) =>
                    /\ uuid' \notin IssuedIds
                    /\ CreatedPlatformOk(storage', uuid')
                    /\ \A id \in DOMAIN storage.platforms :
                          /\ id \in DOMAIN storage'.platforms
                          /\ storage'.platforms[id] = storage.platforms[id]]_vars

\* a platform was created, and a body whose status the schema lets through
\* was among the inputs
C16_Witness ==
    /\ \E id \in DOMAIN storage.platforms :
          id > 1 + DemoJobs /\ storage.platforms[id].status = "connected"
    /\ \E body \in PlatformBodies :
          /\ insertPlatformSchema(body).ok
          /\ insertPlatformSchema(body).data.status = "error"
    /\ storage.activityLogs[Len(storage.activityLogs)].action = "Platform connected"

\* the two steps of a process request for a stored job as functions of the
\* store: up to the call, and after the call has ended with outcome o, a
\* pair of a result (NULL for none) and a rejection
Begin(s, id) == updateJob(s, id, ProcessingUpdates(s.jobs[id]))
End(s, id, o) ==
    IF o[1] # NULL THEN OnResult(s, s.jobs[id], o[1]) ELSE OnError(s, s.jobs[id], o[2])
Outcomes ==
    (Results \X {[isError |-> FALSE, message |-> NULL]}) \cup ({NULL} \X Rejections)

\* what the claim compares: the jobs, the transactions as a set, the balance
\* and the earnings counter
Final(s) ==
    [ jobs |-> s.jobs,
      transactions |-> {s.transactions[k] : k \in DOMAIN s.transactions},
      count |-> Len(s.transactions),
      balance |-> s.balance,
      totalEarnings |-> s.totalEarnings ]

Callable(id) == Stored(id) /\ Route(jobs[id]).call # NULL

\* C17: the steps of two process requests for different jobs commute, so
\* every interleaving of the two requests ends in the same jobs,
\* transactions, balance and totalEarnings as one request after the other:
\* the first steps of both commute; while a call for one job is in flight,
\* the first step for the other job commutes with the end of that call;
\* and while the calls of both are in flight, their ends commute, for every
\* pair of outcomes.
C17_DifferentJobsCommute ==
    \A id1, id2 \in DOMAIN jobs :
        (id1 # id2 /\ Callable(id1) /\ Callable(id2)) =>
            /\ Final(Begin(Begin(storage, id1), id2)) = Final(Begin(Begin(storage, id2), id1))
            /\ Calling(id1) # {} =>
                  \A o1 \in Outcomes :
                      /\ Final(End(Begin(storage, id2), id1, o1))
                           = Final(Begin(End(storage, id1, o1), id2))
                      /\ Calling(id2) # {} =>
                            \A o2 \in Outcomes :
                                Final(End(End(storage, id1, o1), id2, o2))
                                  = Final(End(End(storage, id2, o2), id1, o1))

\* the calls of two requests for different jobs are in flight together
C17_Witness ==
    \E r1, r2 \in DOMAIN reqs :
        /\ reqs[r1].phase = "calling"
        /\ reqs[r2].phase = "calling"
        /\ reqs[r1].id # reqs[r2].id
        /\ Stored(reqs[r1].id) /\ Stored(reqs[r2].id)

\* C18: there is no mutual exclusion per job: with the module loaded a
\* process request for a stored job passes the checks whatever the status
\* of the job is, and a request for a job that already has a call in flight
\* sets it to processing again and adds a second call in flight for it.
C18_NoMutualExclusion ==
    /\ [](\A id \in DOMAIN jobs : openaiModule => ProcessEarlyResponse(id).code = 0)
    /\ [][Changed =>
            \A id \in DOMAIN jobs :
                (ProcessBegin(id) /\ openaiModule /\ Calling(id) # {} /\ Callable(id)) =>
                    /\ Calling(id) \subseteq CallingNext(id)
                    /\ Cardinality(CallingNext(id)) = Cardinality(Calling(id)) + 1
                    /\ StoredNext(id)
                    /\ storage'.jobs[id].status = "processing"]_vars

\* two calls are in flight for one job, which is processing
C18_Witness ==
    \E id \in DOMAIN jobs :
        /\ Cardinality(Calling(id)) >= 2
        /\ jobs[id].status = "processing"

\* C19: the activity logs and the transactions only grow: every step keeps
\* each transaction and each activity log that was there, in its place and
\* with every field as it was, and at most appends new ones.
C19_LogsAndTransactionsGrow ==
    [][TransactionsKept /\ LogsKept]_vars

\* logs and transactions were appended, a platform and a job were deleted
C19_Witness ==
    /\ Len(storage.activityLogs) = DemoLogs + MaxNewLogs
    /\ Len(storage.transactions) > DemoTransactions
    /\ \E k \in DOMAIN storage.activityLogs :
          storage.activityLogs[k].action \in {"Job cancelled", "Platform disconnected"}

\* C20: the DELETE route accepts every job that is in the store, whatever
\* its status, and removes it and no other job; an id that was issued and
\* is not in the store of jobs is in no later store either, also when a
\* process request that was suspended on a call for it succeeds or fails.
C20_DeletedStaysAbsent ==
    /\ [](\A id \in DOMAIN jobs : DeleteJobResponse(id).code = 200)
    /\ [][Changed =>
            /\ \A id \in DOMAIN jobs :
                  DeleteJob(id) =>
                      /\ ~StoredNext(id)
                      /\ \A other \in DOMAIN jobs \ {id} :
                            StoredNext(other) /\ storage'.jobs[other] = jobs[other]
            /\ \A id \in IssuedIds : ~Stored(id) => ~StoredNext(id)]_vars

\* a job was deleted while a call for it was in flight, and the request has
\* ended since: its log follows the log of the delete
C20_Witness ==
    \E k \in DOMAIN storage.activityLogs :
        LET log == storage.activityLogs[k]
            last == storage.activityLogs[Len(storage.activityLogs)]
        IN  /\ k > DemoLogs
            /\ k < Len(storage.activityLogs)
            /\ log.action = "Job cancelled"
            /\ last.action \in {"CAPTCHA solved", "Typing job completed", "Job failed"}
            /\ last.jobId = log.details
            /\ ~Stored(log.details)

\* the process requests for job id that have ended since startup: each
\* appended an activity log with the id of the job
EndActions == {"CAPTCHA solved", "Typing job completed", "Job failed"}
Ended(id) ==
    Cardinality({k \in DOMAIN storage.activityLogs :
                    /\ k > DemoLogs
                    /\ storage.activityLogs[k].jobId = id
                    /\ storage.activityLogs[k].action \in EndActions})

\* C21: the first step of a process request sets the job to processing and
\* only then is a call in flight for it; while the call of a request is the
\* only one in flight for its job, the job the handler holds stays
\* processing: in every state where no request for the job has ended yet,
\* and over every step that starts with the job processing and one call in
\* flight for it and ends with that call still in flight.
C21_ProcessingWhileInFlight ==
    /\ [](\A r \in DOMAIN reqs :
            (reqs[r].phase = "calling" /\ Ended(reqs[r].id) = 0)
                => Deref(reqs[r]).status = "processing")
    /\ [][Changed =>
            /\ \A id \in DOMAIN jobs :
                  (ProcessBegin(id) /\ openaiModule /\ Callable(id)) =>
                      /\ storage'.jobs[id].status = "processing"
                      /\ CallingNext(id) # {}
            /\ \A r \in DOMAIN reqs :
                  ( /\ Calling(reqs[r].id) = {r}
                    /\ Deref(reqs[r]).status = "processing"
                    /\ r \in CallingNext(reqs[r].id) ) =>
                      /\ StoredNext(reqs[r].id)
                            => storage'.jobs[reqs[r].id].status = "processing"
                      /\ ~StoredNext(reqs[r].id)
                            => reqs'[r].job.status = "processing"]_vars

\* one call is in flight for the job that was seeded as queued, and no
\* request for it has ended
C21_Witness ==
    /\ Cardinality(Calling(DemoJobId(0))) = 1
    /\ Ended(DemoJobId(0)) = 0
    /\ Stored(DemoJobId(0))
    /\ jobs[DemoJobId(0)].status = "processing"

\* the operation the routing table names for a job, NULL where it names none
Routed(job) ==
    LET image == Truthy(job.data.imageUrl)
        text == Truthy(job.data.text)
        format == Truthy(job.data.format)
    IN  CASE job.type = "captcha" /\ image -> "solveCaptchaImage"
          [] job.type = "captcha" /\ ~image /\ text -> "solveCaptchaText"
          [] job.type = "typing" /\ image -> "transcribeImage"
          [] job.type = "typing" /\ ~image /\ text /\ format -> "processDataEntry"
          [] OTHER -> NULL

\* the slots that hold a call in flight, with the operation called
CallsInFlight == {<<r, reqs[r].call>> : r \in {q \in DOMAIN reqs : reqs[q].phase = "calling"}}
CallsInFlightNext == {<<r, reqs'[r].call>> : r \in {q \in DOMAIN reqs : reqs'[q].phase = "calling"}}

\* C22 (process handler over every payload): the operation a process request
\* calls is the one the table names for the type and the data of the job:
\* captcha with image: image-solve; captcha without image, with text:
\* text-solve; typing with image: transcription; typing without image, with
\* text and format: format conversion; an image goes before a text.  The
\* first step of a request puts exactly that one call in flight and no step
\* adds a call otherwise.
C22_RoutingTable ==
    /\ [](\A id \in DOMAIN jobs :
            /\ Routed(jobs[id]) # NULL => Route(jobs[id]).call = Routed(jobs[id])
            /\ Route(jobs[id]).call \in Calls \cup {NULL})
    /\ [][Changed =>
            /\ \A id \in DOMAIN jobs :
                  (ProcessBegin(id) /\ openaiModule /\ Routed(jobs[id]) # NULL) =>
                      \E r \in DOMAIN reqs :
                          /\ reqs[r].phase = "idle"
                          /\ reqs'[r].id = id
                          /\ CallsInFlightNext = CallsInFlight \cup {<<r, Routed(jobs[id])>>}
            /\ CallsInFlightNext \subseteq CallsInFlight
                  \/ /\ Cardinality(CallsInFlightNext \ CallsInFlight) = 1
                     /\ \E id \in DOMAIN jobs : ProcessBegin(id)]_vars

\* a call is in flight for a created job that carries both an image and a
\* text: the image operation of its type was called
C22_Witness ==
    \E r \in DOMAIN reqs :
        /\ reqs[r].phase = "calling"
        /\ Stored(reqs[r].id)
        /\ LET job == jobs[reqs[r].id]
           IN  /\ Truthy(job.data.imageUrl) /\ Truthy(job.data.text)
               /\ job.type = "typing"
               /\ reqs[r].call = "transcribeImage"

\* C23: totalEarnings never decreases; a process request whose call
\* succeeded raises it by the reward of its job if the reward is positive
\* and leaves it otherwise; every other step (withdrawal, failed process
\* request, deletion, read, ...) leaves it as it was.
C23_TotalEarningsCounter ==
    /\ [](getDashboardStats(storage).totalEarnings = storage.totalEarnings)
    /\ [][Changed =>
            /\ storage'.totalEarnings >= storage.totalEarnings
            /\ \A r \in DOMAIN reqs, result \in Results :
                  ProcessSucceed(r, result) =>
                      LET reward == parseFloat(Deref(reqs[r]).reward)
                      IN  storage'.totalEarnings
                            = storage.totalEarnings + (IF reward > 0 THEN reward ELSE 0)
            /\ (\A r \in DOMAIN reqs, result \in Results : ~ProcessSucceed(r, result))
                  => storage'.totalEarnings = storage.totalEarnings]_vars

\* a job with a positive reward was processed with success and a withdrawal
\* was accepted: the counter is up by the reward alone
C23_Witness ==
    /\ Len(storage.transactions) = DemoTransactions + 2
    /\ \E k, l \in DOMAIN storage.transactions :
          /\ k > DemoTransactions /\ l > DemoTransactions
          /\ IsWithdrawal(storage.transactions[l])
          /\ IsEarning(storage.transactions[k])
          /\ parseFloat(storage.transactions[k].amount) > 0
          /\ storage.totalEarnings
               = DemoTotalEarnings + parseFloat(storage.transactions[k].amount)

\* room, within the bounds of the model, for one more request that appends
\* a log, creates a job, suspends on a call
JobRoom == Handled("New job created") < MaxNewJobs
SlotRoom == Cardinality(InFlight) < MaxInFlight
\* no handler is between a throw of its router and the end of its catch
\* block, which it runs through without a suspension
Settled == \A q \in DOMAIN reqs : reqs[q].phase \in {"idle", "calling"}

\* C24: a process request suspended on its call blocks no other request:
\* in every state with a call in flight the stats request, every job
\* create, job delete and withdrawal request, a process request for any
\* other id and both endings of every call in flight can be handled.  The
\* suspended request has changed nothing but the status of its job: its
\* first step sets that one field to processing and leaves every other
\* field of the job, every other job, the transactions, the activity logs,
\* the balance and totalEarnings as they were.
C24_HangBlocksOnlyItself ==
    /\ [](\A r \in DOMAIN reqs :
            (reqs[r].phase = "calling" /\ Settled) =>
                /\ ENABLED GetStats
                /\ \A q \in DOMAIN reqs :
                      reqs[q].phase = "calling" =>
                          /\ \A result \in Results : ENABLED ProcessSucceed(q, result)
                          /\ \A e \in Rejections : ENABLED ProcessFail(q, e)
                /\ LogRoom =>
                      /\ \A body \in WithdrawalBodies : ENABLED PostWithdrawals(body)
                      /\ \A id \in RequestIds : ENABLED DeleteJob(id)
                      /\ JobRoom => \A body \in JobBodies : ENABLED PostJobs(body)
                      /\ SlotRoom =>
                            \A id \in RequestIds \ {reqs[r].id} : ENABLED ProcessBegin(id))
    /\ [][Changed =>
            \A id \in DOMAIN jobs :
                (ProcessBegin(id) /\ openaiModule /\ Callable(id)) =>
                    /\ storage' = [storage EXCEPT !.jobs[id].status = "processing"]
                    /\ uuid' = uuid
                    /\ \A q \in DOMAIN reqs : reqs[q].phase # "idle" => reqs'[q] = reqs[q]]_vars

\* a DELETE was handled while a call was in flight, which still is: the job
\* of the suspended request is no longer in the store
C24_Witness ==
    \E r \in DOMAIN reqs :
        /\ reqs[r].phase = "calling"
        /\ ~Stored(reqs[r].id)
        /\ reqs[r].job.status = "processing"
        /\ storage.activityLogs[Len(storage.activityLogs)].action = "Job cancelled"

\* the earning transactions process requests have created for job id
EarningsOf(id) ==
    {k \in DOMAIN storage.transactions :
        /\ k > DemoTransactions
        /\ IsEarning(storage.transactions[k])
        /\ storage.transactions[k].jobId = id}

\* C25 as stated: for each job id, process requests create at most one
\* earning transaction with that jobId, over any sequence or interleaving
\* of process requests.
C25_CreditedAtMostOnce == \A id \in IssuedIds : Cardinality(EarningsOf(id)) <= 1

\* no reward below zero was credited; it is so when the reward of every job
\* is non-negative, since the amount credited is the reward of the job
CreditsNonNegative ==
    \A k \in DOMAIN storage.transactions :
        IsEarning(storage.transactions[k]) => parseFloat(storage.transactions[k].amount) >= 0

\* C26: the balance at startup is non-negative, and as long as no negative
\* reward was credited the balance is non-negative in every reachable
\* state, under every interleaving of withdrawals with suspended process
\* requests; a withdrawal is checked and debited in one step, which leaves
\* the balance lower by the amount and not below zero.
C26_BalanceNonNegative ==
    /\ [](CreditsNonNegative => storage.balance >= 0)
    /\ [][Changed =>
            \A body \in WithdrawalBodies :
                (PostWithdrawals(body) /\ PostWithdrawalsResponse(body).code = 201) =>
                    /\ storage'.balance = storage.balance - body.amount
                    /\ storage.balance >= 0 => storage'.balance >= 0]_vars

\* the whole balance was withdrawn while a call is in flight
C26_Witness ==
    /\ storage.balance = 0
    /\ CreditsNonNegative
    /\ \E r \in DOMAIN reqs : reqs[r].phase = "calling"
    /\ IsPendingWithdrawal(storage.transactions[Len(storage.transactions)])

\* C27 as stated: whenever a step creates an earning transaction and credits
\* the balance, the job named by the jobId of the transaction is in the
\* store at that moment, also when a DELETE for the job was handled while
\* the call was in flight.
C27_CreditedJobStored ==
    [][Changed =>
          \A k \in DOMAIN NewTransactions :
              IsEarning(NewTransactions[k]) =>
                  /\ Stored(NewTransactions[k].jobId)
                  /\ StoredNext(NewTransactions[k].jobId)]_vars

\* the process requests for job id that have ended in failure since startup
Failed(id) ==
    Cardinality({k \in DOMAIN storage.activityLogs :
                    /\ k > DemoLogs
                    /\ storage.activityLogs[k].jobId = id
                    /\ storage.activityLogs[k].action = "Job failed"})

\* the retry count a job was stored with: that of the seed for a demo job,
\* 0 for a created job
CreatedRetryCount(id) ==
    IF id <= 1 + DemoJobs THEN DemoJob(0, id - PlatformId - 1).retryCount ELSE 0

\* C28: for every job in the store the retry count is the count it was
\* created with plus the number of process requests for it that have ended
\* in failure, whether the failing requests followed each other or
\* overlapped.
C28_RetryCountCountsFailures ==
    \A id \in DOMAIN jobs : jobs[id].retryCount = CreatedRetryCount(id) + Failed(id)

\* a request for a job has failed while another call for the same job is
\* still in flight
C28_Witness ==
    \E id \in DOMAIN jobs :
        /\ Calling(id) # {}
        /\ Failed(id) = 1
        /\ jobs[id].status = "failed"
        /\ jobs[id].retryCount = CreatedRetryCount(id) + 1

\* the step appended n activity logs and kept the ones that were there
Logged(n) == LogsKept /\ Len(NewLogs) = n

\* C29: a request that changes the store appends exactly one activity log:
\* an accepted job create, job delete, platform add, platform delete and
\* withdrawal, every auto-process set, and a process request, whose first
\* step appends none and whose ending, success or failure, appends one; a
\* request answered 400, 404 or 503 and a read append none.
C29_OneLogPerChange ==
    /\ [](/\ \A body \in JobBodies : PostJobsResponse(body).code \in {201, 400}
          /\ \A id \in RequestIds : DeleteJobResponse(id).code \in {200, 404}
          /\ \A id \in RequestIds : ProcessEarlyResponse(id).code \in {0, 404, 503}
          /\ \A body \in PlatformBodies : PostPlatformsResponse(body).code \in {201, 400}
          /\ \A id \in RequestIds : DeletePlatformResponse(id).code \in {200, 404}
          /\ \A body \in WithdrawalBodies : PostWithdrawalsResponse(body).code \in {201, 400})
    /\ [][Changed =>
            /\ Logged(0) \/ Logged(1)
            /\ \A body \in JobBodies :
                  PostJobs(body) =>
                      Logged(IF PostJobsResponse(body).code = 201 THEN 1 ELSE 0)
            /\ \A id \in RequestIds :
                  /\ DeleteJob(id) => Logged(IF DeleteJobResponse(id).code = 200 THEN 1 ELSE 0)
                  /\ ProcessBegin(id) => Logged(0)
                  /\ DeletePlatform(id) =>
                        Logged(IF DeletePlatformResponse(id).code = 200 THEN 1 ELSE 0)
            /\ \A r \in DOMAIN reqs :
                  /\ \A result \in Results : ProcessSucceed(r, result) => Logged(1)
                  /\ \A e \in Rejections : ProcessFail(r, e) => Logged(1)
                  /\ ProcessThrown(r) => Logged(1)
            /\ \A body \in PlatformBodies :
                  PostPlatforms(body) =>
                      Logged(IF PostPlatformsResponse(body).code = 201 THEN 1 ELSE 0)
            /\ \A body \in WithdrawalBodies :
                  PostWithdrawals(body) =>
                      Logged(IF PostWithdrawalsResponse(body).code = 201 THEN 1 ELSE 0)
            /\ \A body \in SettingsBodies : PostSettings(body) => Logged(1)]_vars

\* a job was deleted while a call was in flight for it and the call has
\* failed since: two requests that changed the store, two logs
C29_Witness ==
    /\ Len(storage.activityLogs) = DemoLogs + 2
    /\ storage.activityLogs[DemoLogs + 1].action = "Job cancelled"
    /\ storage.activityLogs[DemoLogs + 2].action = "Job failed"
    /\ storage.activityLogs[DemoLogs + 2].jobId = storage.activityLogs[DemoLogs + 1].details
    /\ InFlight = {}

\* the requests for job id that are between their two steps
Pending(id) == {r \in InFlight : reqs[r].id = id}
Over(id) == ~Stored(id) \/ jobs[id].status \in {"completed", "failed"}
\* the ids a job can have
JobIds == (PlatformId + 1)..(1 + DemoJobs + MaxNewLogs)

\* C30 (every call returns): a job that a process request has set to
\* processing is later completed, failed or deleted; and a job that is
\* processing while no request for it is between its steps is a job no
\* request has ended for, that is, the job the seed stored as processing.
C30_ProcessingEnds ==
    /\ \A id \in JobIds : (Pending(id) # {}) ~> Over(id)
    /\ [](\A id \in DOMAIN jobs :
            (jobs[id].status = "processing" /\ Pending(id) = {}) =>
                /\ Ended(id) = 0
                /\ id <= 1 + DemoJobs
                /\ DemoJob(0, id - PlatformId - 1).status = "processing")

\* the job the seed stored as processing was processed by a request, which
\* has ended, and no request is in flight
C30_Witness ==
    \E id \in DOMAIN jobs :
        /\ DemoJob(0, id - PlatformId - 1).status = "processing"
        /\ Ended(id) >= 1
        /\ InFlight = {}
        /\ jobs[id].status \in {"completed", "failed"}

====
